---- MODULE Spec2Model ----
(***************************************************************************)
(* Report-generation pipeline of problem_first_ai: the freeform parser     *)
(* ExecutiveReportGenerator._parse_llm_response, the call                  *)
(* generate_executive_report around it, the research-summary renderer      *)
(* create_industry_research_prompt and the part of app.main that feeds     *)
(* them.                                                                   *)
(*                                                                         *)
(* Text is modelled as sequences of tokens.  A token is a word, a blank    *)
(* (" "), or one of the keywords the parser looks for; a line is a         *)
(* sequence of tokens and a response is a sequence of lines (the result    *)
(* of split('\n')).  strip, startswith, endswith, split(":", 1) and        *)
(* concatenation are computed on the token sequences.                      *)
(***************************************************************************)
EXTENDS Integers, Sequences, FiniteSets, TLC

\* ------------------------------------------------------------------ bounds
MaxLines == 6          \* lines of a free response fed to the parser
MaxEntries == 2        \* recommendation entries of a generated conformant text

\* ------------------------------------------------------------ string model
SP == " "

\* the bullet marker U+2022, one character
BULLET == "(bullet)"

SectionHeaders ==
  <<"EXECUTIVE SUMMARY:", "KEY FINDINGS:", "STRATEGIC RECOMMENDATIONS:",
    "RISK ASSESSMENT:", "NEXT STEPS:">>

HeaderSet == {SectionHeaders[i] : i \in 1..Len(SectionHeaders)}

FieldPrefixes == {"Category:", "Priority:", "Timeline:", "Expected Impact:"}

\* tokens whose last character is the first colon of the token
ColonTokens == HeaderSet \cup FieldPrefixes \cup {"key findings:", ":"}

RECURSIVE LStrip(_)
LStrip(s) == IF s # <<>> /\ Head(s) = SP THEN LStrip(Tail(s)) ELSE s

RECURSIVE RStrip(_)
RStrip(s) ==
  IF s # <<>> /\ s[Len(s)] = SP THEN RStrip(SubSeq(s, 1, Len(s) - 1)) ELSE s

\* str.strip()
Strip(s) == RStrip(LStrip(s))

\* str.startswith(tok) for a keyword token
StartsWith(s, tok) == s # <<>> /\ Head(s) = tok

\* str.endswith(tok)
EndsWith(s, tok) == s # <<>> /\ s[Len(s)] = tok

RECURSIVE FirstColon(_, _)
FirstColon(s, i) ==
  IF i > Len(s) THEN 0
  ELSE IF s[i] \in ColonTokens THEN i ELSE FirstColon(s, i + 1)

RECURSIVE UpToColon(_)
UpToColon(s) ==
  IF s = <<>> \/ Head(s) \in ColonTokens THEN <<>>
  ELSE <<Head(s)>> \o UpToColon(Tail(s))

\* variant: line.split(":")[1].strip(), which cuts the value at its own colon
AfterColonSplitAll(s) ==
  Strip(UpToColon(SubSeq(s, FirstColon(s, 1) + 1, Len(s))))

\* line.split(":", 1)[1].strip(), for a line that contains a colon
AfterColon(s) == Strip(SubSeq(s, FirstColon(s, 1) + 1, Len(s)))

\* ------------------------------------------------------- the draft (a dict)
Fields == {"recommendation", "category", "priority", "timeline", "expected_impact"}

RequiredFields == {"recommendation", "priority", "timeline", "expected_impact"}

EmptyDraft == [keys |-> {}, val |-> [f \in Fields |-> <<>>]]

\* d[k] = v
Put(d, k, v) == [keys |-> d.keys \cup {k}, val |-> [d.val EXCEPT ![k] = v]]

\* variant: expected_impact left out of required_fields
IsCompleteWithoutImpact(d) ==
  \A f \in RequiredFields \ {"expected_impact"} :
     f \in d.keys /\ Strip(d.val[f]) # <<>>

\* _is_recommendation_complete
IsComplete(d) ==
  \A f \in RequiredFields : f \in d.keys /\ Strip(d.val[f]) # <<>>

\* variant: the test of completeness left out
ShouldFlushNonEmpty(d) == d.keys # {}

\* `current_recommendation and self._is_recommendation_complete(...)`
ShouldFlush(d) == d.keys # {} /\ IsComplete(d)

\* variant: category declared Optional[str] = None
ValidatesWithoutCategory(d) == Fields \ {"category"} \subseteq d.keys

\* ExecutiveRecommendation(**d) validates: every declared field is required
Validates(d) == Fields \subseteq d.keys

\* the ExecutiveRecommendation built from a valid dict
Item(d) == d.val

\* ------------------------------------------------------------------- state
VARIABLES
  pc,                 \* position in the pipeline / in generate_executive_report
  industry_research,  \* the research bundle handed to the generator, or None
  research_summary,   \* create_industry_research_prompt's result
  response,           \* what self.llm.invoke produced
  input,              \* lines of response.content not yet scanned
  cur,                \* the line scanned last (untrimmed)
  consumed,           \* number of lines scanned
  current_section,
  current_recommendation,
  executive_summary,
  key_findings,
  strategic_recommendations,
  risk_assessment,
  next_steps,
  parse_outcome,      \* "none" | "returned" | "raised": _parse_llm_response
  parsed_response,    \* the ExecutiveSummary returned by the parser
  hallucination_score,
  judge_outcome,      \* "none" | "ok" | "raised": the scoring block
  result,             \* what generate_executive_report handed to its caller
  llm_calls,          \* number of self.llm.invoke calls of this request
  gen,                \* the writer of a grammar-conformant text (section 6)
  app,                \* app.main: its inputs, its temporary file, how it ended
  search,             \* TavilySearchTool.search_company_trends in progress
  sales               \* DataProcessor.process_csv_data: the table, the outcome

parserVars ==
  <<current_section, current_recommendation, executive_summary, key_findings,
    strategic_recommendations, risk_assessment, next_steps>>

callVars ==
  <<industry_research, research_summary, response, hallucination_score,
    judge_outcome, llm_calls>>

vars ==
  <<pc, industry_research, research_summary, response, input, cur, consumed,
    current_section, current_recommendation, executive_summary, key_findings,
    strategic_recommendations, risk_assessment, next_steps, parse_outcome,
    parsed_response, hallucination_score, judge_outcome, result, llm_calls,
    gen, app, search, sales>>

auxVars == <<app, search, sales>>

None == [kind |-> "None"]

NoReport == [kind |-> "NoReport"]

\* process_csv_data not called
SalesOff == [pc |-> "off", table |-> None, outcome |-> None]

\* search_company_trends not called
SearchOff ==
  [pc |-> "off", key |-> "none", products |-> <<>>, k |-> 0, issued |-> <<>>,
   returned |-> <<>>, company_results |-> <<>>, product_results |-> <<>>,
   industry_results |-> <<>>, competitive_results |-> <<>>, outcome |-> None]

\* generate_executive_report called without app.main
AppOff ==
  [caller |-> "direct", openai_key |-> TRUE, uploaded |-> TRUE,
   tavily_key |-> FALSE, tmp_file |-> "none", csv_path |-> FALSE,
   research |-> "none", stage |-> "off", failed_at |-> "none"]

ErrorPrefix == "Error generating executive report: "

\* `raise Exception(f"Error generating executive report: {str(e)}")`
GenerationError(cause) == [kind |-> "raised", message |-> <<ErrorPrefix, cause>>]

\* ------------------------------------------------ _parse_llm_response: loop
SectionNames == <<"summary", "findings", "recommendations", "risk", "steps">>

\* variant: the headers compared with == instead of startswith
SectionOfExact(line) ==
  IF \E i \in 1..5 : line = <<SectionHeaders[i]>>
  THEN SectionNames[CHOOSE i \in 1..5 : line = <<SectionHeaders[i]>>]
  ELSE ""

\* the if/elif chain of section headers; "" when no header matches
SectionOf(line) ==
  IF StartsWith(line, "EXECUTIVE SUMMARY:") THEN "summary"
  ELSE IF StartsWith(line, "KEY FINDINGS:") THEN "findings"
  ELSE IF StartsWith(line, "STRATEGIC RECOMMENDATIONS:") THEN "recommendations"
  ELSE IF StartsWith(line, "RISK ASSESSMENT:") THEN "risk"
  ELSE IF StartsWith(line, "NEXT STEPS:") THEN "steps"
  ELSE ""

IsBracketHeader(line) ==
  StartsWith(line, "[Recommendation") /\ EndsWith(line, "]")

HasFieldPrefix(line) == \E p \in FieldPrefixes : StartsWith(line, p)

\* variant: the exception of the parser is swallowed and the scoring runs
ParserRaisesThenScores(exc) ==
  /\ parse_outcome' = "raised"
  /\ pc' = "scoring"
  /\ result' = result
  /\ UNCHANGED parserVars

\* an exception leaves the parser and is wrapped by the outer handler of
\* generate_executive_report
ParserRaises(exc) ==
  /\ parse_outcome' = "raised"
  /\ pc' = "failed"
  /\ result' = GenerationError(exc)
  /\ UNCHANGED parserVars

ParserContinues ==
  /\ UNCHANGED <<parse_outcome, pc, result>>

\* variant: the appended draft stays the current one
FlushedDraftKept(d) == d

\* lines 241 and 255: current_recommendation = {} after the append
FlushedDraft(d) == EmptyDraft

\* variant: += line, without the " "
JoinDescriptionNoSpace(description, line) == description \o line

\* line 259: current_recommendation['recommendation'] += " " + line
JoinDescription(description, line) == description \o <<SP>> \o line

\* the branch `elif current_section == "recommendations"`
RecommendationLine(line) ==
  IF StartsWith(line, "Category:") THEN
    IF ShouldFlush(current_recommendation) THEN
      IF Validates(current_recommendation) THEN
        /\ strategic_recommendations' =
             Append(strategic_recommendations, Item(current_recommendation))
        /\ current_recommendation' =
             Put(FlushedDraft(current_recommendation), "category", AfterColon(line))
        /\ ParserContinues
        /\ UNCHANGED <<current_section, executive_summary, key_findings,
                       risk_assessment, next_steps>>
      ELSE ParserRaises("ValidationError")
    ELSE
      /\ current_recommendation' =
           Put(current_recommendation, "category", AfterColon(line))
      /\ ParserContinues
      /\ UNCHANGED <<current_section, executive_summary, key_findings,
                     strategic_recommendations, risk_assessment, next_steps>>
  ELSE IF StartsWith(line, "Priority:") THEN
    /\ current_recommendation' =
         Put(current_recommendation, "priority", AfterColon(line))
    /\ ParserContinues
    /\ UNCHANGED <<current_section, executive_summary, key_findings,
                   strategic_recommendations, risk_assessment, next_steps>>
  ELSE IF StartsWith(line, "Timeline:") THEN
    /\ current_recommendation' =
         Put(current_recommendation, "timeline", AfterColon(line))
    /\ ParserContinues
    /\ UNCHANGED <<current_section, executive_summary, key_findings,
                   strategic_recommendations, risk_assessment, next_steps>>
  ELSE IF StartsWith(line, "Expected Impact:") THEN
    /\ current_recommendation' =
         Put(current_recommendation, "expected_impact", AfterColon(line))
    /\ ParserContinues
    /\ UNCHANGED <<current_section, executive_summary, key_findings,
                   strategic_recommendations, risk_assessment, next_steps>>
  ELSE IF line # <<>> /\ ~HasFieldPrefix(line) THEN
    IF IsBracketHeader(line) THEN
      IF ShouldFlush(current_recommendation) THEN
        IF Validates(current_recommendation) THEN
          /\ strategic_recommendations' =
               Append(strategic_recommendations, Item(current_recommendation))
          /\ current_recommendation' = FlushedDraft(current_recommendation)
          /\ ParserContinues
          /\ UNCHANGED <<current_section, executive_summary, key_findings,
                         risk_assessment, next_steps>>
        ELSE ParserRaises("ValidationError")
      ELSE
        /\ current_recommendation' = EmptyDraft
        /\ ParserContinues
        /\ UNCHANGED <<current_section, executive_summary, key_findings,
                       strategic_recommendations, risk_assessment, next_steps>>
    ELSE
      /\ current_recommendation' =
           IF "recommendation" \in current_recommendation.keys
           THEN Put(current_recommendation, "recommendation",
                    JoinDescription(current_recommendation.val["recommendation"],
                                    line))
           ELSE Put(current_recommendation, "recommendation", line)
      /\ ParserContinues
      /\ UNCHANGED <<current_section, executive_summary, key_findings,
                     strategic_recommendations, risk_assessment, next_steps>>
  ELSE
    /\ ParserContinues
    /\ UNCHANGED parserVars

\* variant: a section header starts a new draft
SwitchSectionResets(line) ==
  /\ current_section' = SectionOf(line)
  /\ current_recommendation' = EmptyDraft
  /\ ParserContinues
  /\ UNCHANGED <<executive_summary, key_findings, strategic_recommendations,
                 risk_assessment, next_steps>>

\* lines 216-230: a header line sets current_section and nothing else
SwitchSection(line) ==
  /\ current_section' = SectionOf(line)
  /\ ParserContinues
  /\ UNCHANGED <<current_recommendation, executive_summary, key_findings,
                 strategic_recommendations, risk_assessment, next_steps>>

\* variant: line[1:] without the strip
UnbulletUntrimmed(line) == Tail(line)

\* lines 235 and 265: line[1:].strip()
Unbullet(line) == Strip(Tail(line))

\* one iteration of `for line in lines`
LoopBody(raw) ==
  LET line == Strip(raw) IN
  IF line = <<>> THEN
    /\ ParserContinues
    /\ UNCHANGED parserVars
  ELSE IF SectionOf(line) # "" THEN
    SwitchSection(line)
  ELSE IF current_section = "summary" THEN
    /\ executive_summary' = executive_summary \o line \o <<SP>>
    /\ ParserContinues
    /\ UNCHANGED <<current_section, current_recommendation, key_findings,
                   strategic_recommendations, risk_assessment, next_steps>>
  ELSE IF current_section = "findings" /\ StartsWith(line, BULLET) THEN
    /\ key_findings' = Append(key_findings, Unbullet(line))
    /\ ParserContinues
    /\ UNCHANGED <<current_section, current_recommendation, executive_summary,
                   strategic_recommendations, risk_assessment, next_steps>>
  ELSE IF current_section = "recommendations" THEN
    RecommendationLine(line)
  ELSE IF current_section = "risk" THEN
    /\ risk_assessment' = risk_assessment \o line \o <<SP>>
    /\ ParserContinues
    /\ UNCHANGED <<current_section, current_recommendation, executive_summary,
                   key_findings, strategic_recommendations, next_steps>>
  ELSE IF current_section = "steps" /\ StartsWith(line, BULLET) THEN
    /\ next_steps' = Append(next_steps, Unbullet(line))
    /\ ParserContinues
    /\ UNCHANGED <<current_section, current_recommendation, executive_summary,
                   key_findings, strategic_recommendations, risk_assessment>>
  ELSE
    /\ ParserContinues
    /\ UNCHANGED parserVars

\* the ExecutiveSummary built at the end of the parser
Report(recs) ==
  [executive_summary |-> Strip(executive_summary),
   key_findings |-> key_findings,
   strategic_recommendations |-> recs,
   risk_assessment |-> Strip(risk_assessment),
   next_steps |-> next_steps]

\* after the loop: "Don't forget the last recommendation", then the return
EndOfInput ==
  IF ShouldFlush(current_recommendation) THEN
    IF Validates(current_recommendation) THEN
      /\ strategic_recommendations' =
           Append(strategic_recommendations, Item(current_recommendation))
      /\ parsed_response' =
           Report(Append(strategic_recommendations, Item(current_recommendation)))
      /\ parse_outcome' = "returned"
      /\ pc' = "scoring"
      /\ UNCHANGED <<current_section, current_recommendation, executive_summary,
                     key_findings, risk_assessment, next_steps, result>>
    ELSE
      /\ ParserRaises("ValidationError")
      /\ UNCHANGED parsed_response
  ELSE
    /\ parsed_response' = Report(strategic_recommendations)
    /\ parse_outcome' = "returned"
    /\ pc' = "scoring"
    /\ UNCHANGED <<parserVars, result>>

\* variant: the parser starts in the Summary state
ParserLocalsInitInSummary ==
  /\ cur = <<>>
  /\ consumed = 0
  /\ current_section = "summary"
  /\ current_recommendation = EmptyDraft
  /\ executive_summary = <<>>
  /\ key_findings = <<>>
  /\ strategic_recommendations = <<>>
  /\ risk_assessment = <<>>
  /\ next_steps = <<>>
  /\ parse_outcome = "none"
  /\ parsed_response = NoReport

\* lines 202-209: the locals of _parse_llm_response at entry
ParserLocalsInit ==
  /\ cur = <<>>
  /\ consumed = 0
  /\ current_section = "none"
  /\ current_recommendation = EmptyDraft
  /\ executive_summary = <<>>
  /\ key_findings = <<>>
  /\ strategic_recommendations = <<>>
  /\ risk_assessment = <<>>
  /\ next_steps = <<>>
  /\ parse_outcome = "none"
  /\ parsed_response = NoReport

\* nothing scored, nothing handed to the caller yet
CallLocalsInit ==
  /\ hallucination_score = None
  /\ judge_outcome = "none"
  /\ result = None

\* ------------------------- a writer of grammar-conformant freeform responses
\* (the format the system prompt asks the model to reproduce)
NoItem == [f \in Fields |-> <<>>]

GenOff ==
  [phase |-> "off", headers |-> 0, omitted |-> 0, item |-> NoItem,
   expected |-> <<>>, desc |-> 0]

GenStart == [GenOff EXCEPT !.phase = "begin"]

\* description lines: plain text, possibly indented
DescLines == { <<"a">>, <<SP, "b", SP, "a">> }

CategoryValues == { <<"Strategic">>, <<"Marketing">> }

PriorityValues == { <<"High">> }

TimelineValues == { <<"Short-term">> }

ImpactValues == { <<"i">>, <<"i", ":", SP, "a">> }

FieldLine(prefix, v) == <<prefix, SP>> \o v

\* the description of the entry being written, one more line added
Described(g, line) ==
  [g EXCEPT !.desc = g.desc + 1,
            !.item["recommendation"] =
               IF g.desc = 0 THEN Strip(line)
               ELSE g.item["recommendation"] \o <<SP>> \o Strip(line)]

\* what may come after an entry, or at the start of the section; at most one
\* blank line separates two entries
AfterEntry(g) ==
  (IF g.headers < MaxEntries
   THEN {[line |-> <<"[Recommendation", SP, "k", "]">>,
          next |-> [g EXCEPT !.phase = "desc", !.headers = g.headers + 1,
                             !.item = NoItem, !.desc = 0]]}
   ELSE {})
  \cup (IF g.phase = "recs"
        THEN {[line |-> <<>>, next |-> [g EXCEPT !.phase = "recs1"]]}
        ELSE {})
  \cup {[line |-> <<"RISK ASSESSMENT:">>, next |-> [g EXCEPT !.phase = "risk"]]}

\* the lines the writer may emit next, each with the writer's next state
GenChoices(g) ==
  CASE g.phase = "begin" ->
         {[line |-> <<"EXECUTIVE SUMMARY:">>, next |-> [g EXCEPT !.phase = "summary"]]}
    [] g.phase = "summary" ->
         {[line |-> <<"a", SP, "b">>, next |-> [g EXCEPT !.phase = "summary1"]]}
    [] g.phase = "summary1" ->
         {[line |-> <<>>, next |-> [g EXCEPT !.phase = "summary2"]],
          [line |-> <<"KEY FINDINGS:">>, next |-> [g EXCEPT !.phase = "findings"]]}
    [] g.phase = "summary2" ->
         {[line |-> <<"KEY FINDINGS:">>, next |-> [g EXCEPT !.phase = "findings"]]}
    [] g.phase = "findings" ->
         {[line |-> <<BULLET, SP, "a">>, next |-> [g EXCEPT !.phase = "findings1"]]}
    [] g.phase = "findings1" ->
         {[line |-> <<"STRATEGIC RECOMMENDATIONS:">>,
           next |-> [g EXCEPT !.phase = "recs"]]}
    [] g.phase \in {"recs", "recs1"} -> AfterEntry(g)
    [] g.phase = "desc" ->
         {[line |-> d, next |-> [Described(g, d) EXCEPT !.phase = "category"]]
            : d \in DescLines}
    [] g.phase = "category" ->
         (IF g.desc < 2
          THEN {[line |-> d, next |-> Described(g, d)] : d \in DescLines}
          ELSE {})
         \cup {[line |-> FieldLine("Category:", v),
                next |-> [g EXCEPT !.phase = "priority", !.item["category"] = v]]
                 : v \in CategoryValues}
    [] g.phase = "priority" ->
         {[line |-> FieldLine("Priority:", v) \o <<SP, SP>>,
           next |-> [g EXCEPT !.phase = "timeline", !.item["priority"] = v]]
            : v \in PriorityValues}
    [] g.phase = "timeline" ->
         {[line |-> FieldLine("Timeline:", v),
           next |-> [g EXCEPT !.phase = "impact", !.item["timeline"] = v]]
            : v \in TimelineValues}
         \cup
         (IF g.omitted = 0
          THEN {[line |-> FieldLine("Timeline:", v),
                 next |-> [g EXCEPT !.phase = "recs", !.omitted = g.headers,
                                    !.item = NoItem]]
                  : v \in TimelineValues}
          ELSE {})
    [] g.phase = "impact" ->
         {[line |-> FieldLine("Expected Impact:", v),
           next |-> [g EXCEPT !.phase = "recs", !.item = NoItem,
                       !.expected =
                          Append(g.expected,
                                 [g.item EXCEPT !["expected_impact"] = v])]]
            : v \in ImpactValues}
    [] g.phase = "risk" ->
         {[line |-> <<"b">>, next |-> [g EXCEPT !.phase = "risk1"]]}
    [] g.phase = "risk1" ->
         {[line |-> <<"NEXT STEPS:">>, next |-> [g EXCEPT !.phase = "steps"]]}
    [] g.phase = "steps" ->
         {[line |-> <<BULLET, SP, "b">>, next |-> [g EXCEPT !.phase = "end"]]}
    [] OTHER -> {}

\* ------------------------------------------- the parser on arbitrary lines
Lines ==
  { <<>>,
    <<"STRATEGIC RECOMMENDATIONS:">>,
    <<SP, "KEY FINDINGS:", SP>>,
    <<"RISK ASSESSMENT:">>,
    <<"NEXT STEPS:">>,
    <<"EXECUTIVE SUMMARY:", SP, "a">>,
    <<"key findings:">>,
    <<"a">>,
    <<BULLET, SP, "b">>,
    <<"Category:", SP, "c">>,
    <<"Priority:", SP, "p">>,
    <<"Timeline:", SP, "t">>,
    <<"Expected Impact:", SP, "i">>,
    <<"Expected Impact:", SP>>,
    <<"[Recommendation", SP, "1", "]">> }

ParserInit ==
  /\ pc = "parsing"
  /\ industry_research = None
  /\ research_summary = <<>>
  /\ response = [kind |-> "streamed"]
  /\ llm_calls = 1
  /\ input = <<>>
  /\ ParserLocalsInit
  /\ CallLocalsInit
  /\ gen = GenOff
  /\ app = AppOff
  /\ search = SearchOff
  /\ sales = SalesOff

\* the loop takes the next line of an arbitrary response
ScanAnyLine ==
  /\ pc = "parsing"
  /\ consumed < MaxLines
  /\ \E raw \in Lines :
       /\ cur' = raw
       /\ LoopBody(raw)
  /\ consumed' = consumed + 1
  /\ UNCHANGED <<callVars, input, parsed_response, gen>>
  /\ UNCHANGED auxVars

\* the response has no more lines (split always yields at least one)
FinishAny ==
  /\ pc = "parsing"
  /\ consumed >= 1
  /\ EndOfInput
  /\ UNCHANGED <<callVars, input, cur, consumed, gen>>
  /\ UNCHANGED auxVars

ParserNext == ScanAnyLine \/ FinishAny

SpecParser == ParserInit /\ [][ParserNext]_vars

\* -------------------------------- the parser on grammar-conformant responses
GrammarInit ==
  /\ pc = "parsing"
  /\ industry_research = None
  /\ research_summary = <<>>
  /\ response = [kind |-> "streamed"]
  /\ llm_calls = 1
  /\ input = <<>>
  /\ ParserLocalsInit
  /\ CallLocalsInit
  /\ gen = GenStart
  /\ app = AppOff
  /\ search = SearchOff
  /\ sales = SalesOff

\* the loop takes the next line of a conformant response
ScanWrittenLine ==
  /\ pc = "parsing"
  /\ \E c \in GenChoices(gen) :
       /\ cur' = c.line
       /\ gen' = c.next
       /\ LoopBody(c.line)
  /\ consumed' = consumed + 1
  /\ UNCHANGED <<callVars, input, parsed_response>>
  /\ UNCHANGED auxVars

\* the conformant response is complete
FinishWritten ==
  /\ pc = "parsing"
  /\ gen.phase = "end"
  /\ EndOfInput
  /\ UNCHANGED <<callVars, input, cur, consumed, gen>>
  /\ UNCHANGED auxVars

GrammarNext == ScanWrittenLine \/ FinishWritten

SpecGrammar == GrammarInit /\ [][GrammarNext]_vars

\* ------------------- the parser on entries written without bracketed headers
\* the writer of entries that follow each other directly: description lines,
\* Category:, Priority:, Timeline:, Expected Impact:, at most one blank line,
\* then the next entry; gen.headers counts the entries begun
BareStart == [GenOff EXCEPT !.phase = "bare"]

BareEntryStart(g) ==
  (IF g.headers < MaxEntries
   THEN {[line |-> d,
          next |-> [Described([g EXCEPT !.item = NoItem, !.desc = 0,
                                        !.headers = g.headers + 1], d)
                      EXCEPT !.phase = "bcategory"]] : d \in DescLines}
   ELSE {})
  \cup (IF g.headers >= 1
        THEN {[line |-> <<"RISK ASSESSMENT:">>, next |-> [g EXCEPT !.phase = "end"]]}
        ELSE {})

BareChoices(g) ==
  CASE g.phase = "bare" ->
         {[line |-> <<"STRATEGIC RECOMMENDATIONS:">>,
           next |-> [g EXCEPT !.phase = "bdesc"]]}
    [] g.phase = "bdesc" -> BareEntryStart(g)
    [] g.phase = "bgap" ->
         BareEntryStart(g)
           \cup {[line |-> <<>>, next |-> [g EXCEPT !.phase = "bdesc"]]}
    [] g.phase = "bcategory" ->
         (IF g.desc < 2
          THEN {[line |-> d, next |-> Described(g, d)] : d \in DescLines}
          ELSE {})
         \cup {[line |-> FieldLine("Category:", v),
                next |-> [g EXCEPT !.phase = "bpriority", !.item["category"] = v]]
                 : v \in CategoryValues}
    [] g.phase = "bpriority" ->
         {[line |-> FieldLine("Priority:", v) \o <<SP, SP>>,
           next |-> [g EXCEPT !.phase = "btimeline", !.item["priority"] = v]]
            : v \in PriorityValues}
    [] g.phase = "btimeline" ->
         {[line |-> FieldLine("Timeline:", v),
           next |-> [g EXCEPT !.phase = "bimpact", !.item["timeline"] = v]]
            : v \in TimelineValues}
    [] g.phase = "bimpact" ->
         {[line |-> FieldLine("Expected Impact:", v),
           next |-> [g EXCEPT !.phase = "bgap", !.item = NoItem,
                       !.expected =
                          Append(g.expected,
                                 [g.item EXCEPT !["expected_impact"] = v])]]
            : v \in ImpactValues}
    [] OTHER -> {}

BareInit ==
  /\ pc = "parsing"
  /\ industry_research = None
  /\ research_summary = <<>>
  /\ response = [kind |-> "streamed"]
  /\ llm_calls = 1
  /\ input = <<>>
  /\ ParserLocalsInit
  /\ CallLocalsInit
  /\ gen = BareStart
  /\ app = AppOff
  /\ search = SearchOff
  /\ sales = SalesOff

ScanBareLine ==
  /\ pc = "parsing"
  /\ \E c \in BareChoices(gen) :
       /\ cur' = c.line
       /\ gen' = c.next
       /\ LoopBody(c.line)
  /\ consumed' = consumed + 1
  /\ UNCHANGED <<callVars, input, parsed_response>>
  /\ UNCHANGED auxVars

\* the text is complete
FinishBare ==
  /\ pc = "parsing"
  /\ gen.phase = "end"
  /\ EndOfInput
  /\ UNCHANGED <<callVars, input, cur, consumed, gen>>
  /\ UNCHANGED auxVars

BareNext == ScanBareLine \/ FinishBare

SpecBare == BareInit /\ [][BareNext]_vars

\* ------------------------------------- create_industry_research_prompt
\* variant: the list without the slice
TakeAll(s, n) == s

\* s[:n]
Take(s, n) == SubSeq(s, 1, IF Len(s) < n THEN Len(s) ELSE n)

ResearchHeading == "Industry Research Summary for"

Placeholder ==
  "No industry research data available. Analysis will be based on sales data only."

\* the numbered items of one category: content cut to `width` characters
RenderItems(list, n, width) ==
  [i \in 1..Len(Take(list, n)) |->
     [index |-> i, title |-> list[i].title, width |-> width, url |-> list[i].url]]

create_industry_research_prompt(research) ==
  IF research = None THEN <<ResearchHeading, Placeholder>>
  ELSE <<ResearchHeading, "COMPANY-SPECIFIC TRENDS:">>
       \o RenderItems(research.company_trends, 3, 300)
       \o <<"PRODUCT MARKET TRENDS:">>
       \o RenderItems(research.product_trends, 4, 250)
       \o <<"INDUSTRY NEWS & ANALYSIS:">>
       \o RenderItems(research.industry_news, 3, 250)
       \o <<"COMPETITIVE LANDSCAPE:">>
       \o RenderItems(research.competitive_landscape, 3, 250)

\* ----------------------------------------------------- app.main, research
SearchResults == { <<>>, <<[title |-> "t", url |-> "u"]>> }

IndustryResearch(c, p, i, k) ==
  [kind |-> "IndustryResearch", company_trends |-> c, product_trends |-> p,
   industry_news |-> i, competitive_landscape |-> k]

Bundles ==
  {IndustryResearch(c, p, i, k) :
     c \in SearchResults, p \in SearchResults, i \in SearchResults,
     k \in SearchResults}

EmptyBundle == IndustryResearch(<<>>, <<>>, <<>>, <<>>)

\* variant: no handler around the research, its failure ends the run
ResearchFailedAborts(how) ==
  /\ industry_research' = None
  /\ app' = [app EXCEPT !.research = how, !.stage = "handler",
                        !.failed_at = "research"]
  /\ pc' = "aborted"

\* app.py 145-149: a missing key or an exception of the tool leaves
\* industry_research at None and the run goes on
ResearchFailed(how) ==
  /\ industry_research' = None
  /\ app' = [app EXCEPT !.research = how]
  /\ pc' = "bundle"

\* app.py 136-149: research is optional
AppResearch ==
  /\ pc = "research"
  /\ IF ~app.tavily_key
     THEN ResearchFailed("no_key")
     ELSE \/ ResearchFailed("tool_raised")
          \/ ResearchFailed("search_raised")
          \/ /\ \E b \in Bundles : industry_research' = b
             /\ app' = [app EXCEPT !.research = "ok"]
             /\ pc' = "bundle"
  /\ UNCHANGED <<research_summary, response, input, cur, consumed, parserVars,
                 parse_outcome, parsed_response, hallucination_score,
                 judge_outcome, result, llm_calls, gen, search, sales>>

\* app.py 153-161: `if not industry_research:` builds the empty research object
AppEmptyBundle ==
  /\ pc = "bundle"
  /\ industry_research' =
       IF industry_research = None THEN EmptyBundle ELSE industry_research
  /\ pc' = "prompts"
  /\ UNCHANGED <<research_summary, response, input, cur, consumed, parserVars,
                 parse_outcome, parsed_response, hallucination_score,
                 judge_outcome, result, llm_calls, gen>>
  /\ UNCHANGED auxVars

\* ------------------------------------------- generate_executive_report
\* lines 61-69: the summaries and the two prompts
BuildPrompts ==
  /\ pc = "prompts"
  /\ research_summary' = create_industry_research_prompt(industry_research)
  /\ pc' = "llm"
  /\ UNCHANGED <<industry_research, response, input, cur, consumed, parserVars,
                 parse_outcome, parsed_response, hallucination_score,
                 judge_outcome, result, llm_calls, gen>>
  /\ UNCHANGED auxVars

\* response.content of an empty answer: "".split('\n') is one empty line
EmptyContent == << <<>> >>

WellFormedContent ==
  << <<"EXECUTIVE SUMMARY:">>, <<"a">>,
     <<"KEY FINDINGS:">>, <<BULLET, SP, "a">>, <<"b">>,
     <<"STRATEGIC RECOMMENDATIONS:">>,
     <<"[Recommendation", SP, "1", "]">>, <<"a">>,
     <<"Category:", SP, "c">>, <<"Priority:", SP, "p">>,
     <<"Timeline:", SP, "t">>, <<"Expected Impact:", SP, "i">>,
     <<>>,
     <<"[Recommendation", SP, "2", "]">>, <<"b">>,
     <<"Category:", SP, "c">>, <<"Priority:", SP, "p">>,
     <<"Timeline:", SP, "t">>, <<"Expected Impact:", SP, "i">>,
     <<"RISK ASSESSMENT:">>, <<"b">>,
     <<"NEXT STEPS:">>, <<BULLET, SP, "b">> >>

NoCategoryContent ==
  << <<"STRATEGIC RECOMMENDATIONS:">>, <<"a">>, <<"Priority:", SP, "p">>,
     <<"Timeline:", SP, "t">>, <<"Expected Impact:", SP, "i">> >>

Contents == {EmptyContent, WellFormedContent, NoCategoryContent}

LLMFailures == {"network", "authentication"}

\* variant: the outer handler swallows the failure and returns nothing
LLMRaisesSwallowed(cause) ==
  /\ response' = [kind |-> "raised", cause |-> cause]
  /\ result' = [kind |-> "returned", report |-> NoReport, score |-> None]
  /\ pc' = "returned"
  /\ input' = input

\* line 112-113: the outer handler wraps the cause and raises to the caller
LLMRaises(cause) ==
  /\ response' = [kind |-> "raised", cause |-> cause]
  /\ result' = GenerationError(cause)
  /\ pc' = "failed"
  /\ input' = input

\* lines 72-75: the single call of the model
LLMInvoke ==
  /\ pc = "llm"
  /\ llm_calls' = llm_calls + 1
  /\ \/ \E cause \in LLMFailures : LLMRaises(cause)
     \/ \E content \in Contents :
          /\ response' = [kind |-> "content", content |-> content]
          /\ input' = content
          /\ pc' = "parsing"
          /\ result' = result
  /\ UNCHANGED <<industry_research, research_summary, cur, consumed, parserVars,
                 parse_outcome, parsed_response, hallucination_score,
                 judge_outcome, gen>>
  /\ UNCHANGED auxVars

\* line 78, the loop of the parser on the response's next line
ScanLine ==
  /\ pc = "parsing"
  /\ input # <<>>
  /\ cur' = Head(input)
  /\ input' = Tail(input)
  /\ LoopBody(Head(input))
  /\ consumed' = consumed + 1
  /\ UNCHANGED <<callVars, parsed_response, gen>>
  /\ UNCHANGED auxVars

\* line 78, the parser after its loop
Finish ==
  /\ pc = "parsing"
  /\ input = <<>>
  /\ EndOfInput
  /\ UNCHANGED <<callVars, input, cur, consumed, gen>>
  /\ UNCHANGED auxVars

ScoreValues == {0, 1}

\* variant: no inner handler, the judge's exception reaches the outer one
JudgeRaisesPropagates ==
  /\ judge_outcome' = "raised"
  /\ hallucination_score' = None
  /\ pc' = "failed"
  /\ result' = GenerationError("judge")

\* lines 106-107: the inner handler prints and goes on
JudgeRaises ==
  /\ judge_outcome' = "raised"
  /\ hallucination_score' = None
  /\ pc' = "returning"
  /\ result' = result

\* lines 80-107: best-effort scoring; the metric's constructor, the context
\* string and the judge call are all inside the inner try
Score ==
  /\ pc = "scoring"
  /\ \/ \E stage \in {"constructor", "context", "judge"} : JudgeRaises
     \/ \E v \in ScoreValues :
          /\ hallucination_score' = [kind |-> "score", value |-> v]
          /\ judge_outcome' = "ok"
          /\ pc' = "returning"
          /\ result' = result
  /\ UNCHANGED <<industry_research, research_summary, response, input, cur,
                 consumed, parserVars, parse_outcome, parsed_response,
                 llm_calls, gen>>
  /\ UNCHANGED auxVars

\* line 110
Return ==
  /\ pc = "returning"
  /\ result' = [kind |-> "returned", report |-> parsed_response,
                score |-> hallucination_score]
  /\ pc' = "returned"
  /\ UNCHANGED <<industry_research, research_summary, response, input, cur,
                 consumed, parserVars, parse_outcome, parsed_response,
                 hallucination_score, judge_outcome, llm_calls, gen>>
  /\ UNCHANGED auxVars

\* --------------------------------------------- DataProcessor (data_processor)
\* Amounts are integers in thousandths of the sales unit (1000 = 1.00), so a
\* value with three decimals is representable and round(.., 2) has something
\* to round.  Percentages are integers in hundredths of a percent.  Product
\* and region names are represented by their rank in string order, which is
\* the order groupby gives the groups.  The std column (sales_volatility) is
\* not represented.

MaxRows == 3           \* rows of an enumerated table
ManyProducts == 31     \* products of the table with one row per product

Lower(tok) ==
  CASE tok = "Product" -> "product"
    [] tok = "Region" -> "region"
    [] tok = "Sales" -> "sales"
    [] tok = "Revenue" -> "revenue"
    [] tok = "Millions" -> "millions"
    [] tok = "USD" -> "usd"
    [] tok = "Total" -> "total"
    [] OTHER -> tok

\* df.columns.str.lower().str.replace(' ', '_'), for one name
NormalizeName(name) ==
  [i \in DOMAIN name |-> IF name[i] = SP THEN "_" ELSE Lower(name[i])]

NormalizeColumns(header) == [i \in DOMAIN header |-> NormalizeName(header[i])]

possible_sales_cols ==
  << <<"sales">>, <<"revenue", "_", "millions", "_", "usd">>, <<"revenue">>,
     <<"total", "_", "sales">>, <<"amount">> >>

InColumns(name, cols) == \E i \in DOMAIN cols : cols[i] = name

NoColumn == <<>>

\* variant: the loop without its break, the last match wins
ResolveLastMatch(cols) ==
  IF \E k \in DOMAIN possible_sales_cols : InColumns(possible_sales_cols[k], cols)
  THEN LET k == CHOOSE k \in DOMAIN possible_sales_cols :
                  /\ InColumns(possible_sales_cols[k], cols)
                  /\ \A j \in DOMAIN possible_sales_cols :
                       j > k => ~InColumns(possible_sales_cols[j], cols)
       IN possible_sales_cols[k]
  ELSE NoColumn

\* lines 26-31: the first candidate that is a column, or None
ResolveSalesColumn(cols) ==
  IF \E k \in DOMAIN possible_sales_cols : InColumns(possible_sales_cols[k], cols)
  THEN LET k == CHOOSE k \in DOMAIN possible_sales_cols :
                  /\ InColumns(possible_sales_cols[k], cols)
                  /\ \A j \in DOMAIN possible_sales_cols :
                       j < k => ~InColumns(possible_sales_cols[j], cols)
       IN possible_sales_cols[k]
  ELSE NoColumn

\* df.rename(columns={sales_column: 'sales'})
RenameColumns(cols, sales_column) ==
  [i \in DOMAIN cols |-> IF cols[i] = sales_column THEN <<"sales">> ELSE cols[i]]

required_columns == << <<"product">>, <<"region">>, <<"sales">> >>

\* variant: region left out of required_columns
MissingColumnsNoRegion(cols) ==
  SelectSeq(<< <<"product">>, <<"sales">> >>, LAMBDA c : ~InColumns(c, cols))

\* line 41: the required columns that are not columns, in list order
MissingColumns(cols) ==
  SelectSeq(required_columns, LAMBDA c : ~InColumns(c, cols))

ColumnIndex(cols, name) == CHOOSE i \in DOMAIN cols : cols[i] = name

\* division rounded to the nearest integer, ties to the even one
RoundDiv(n, d) ==
  LET q == n \div d
      r == n % d
  IN IF 2 * r < d THEN q
     ELSE IF 2 * r > d THEN q + 1
     ELSE IF q % 2 = 0 THEN q ELSE q + 1

\* variant: .round() without the 2, to whole units
Round0(x) == RoundDiv(x, 1000) * 1000

\* .round(2) of an amount
Round2(x) == RoundDiv(x, 10) * 10

RECURSIVE SumSeq(_)
SumSeq(q) == IF q = <<>> THEN 0 ELSE Head(q) + SumSeq(Tail(q))

\* the values of column `val` in the rows whose column `key` is k
GroupValues(rows, key, val, k) ==
  LET mine == SelectSeq(rows, LAMBDA r : r[key] = k)
  IN [i \in DOMAIN mine |-> mine[i][val]]

RECURSIVE SortedSeq(_)
SortedSeq(S) ==
  IF S = {} THEN <<>>
  ELSE LET m == CHOOSE x \in S : \A y \in S : x <= y
       IN <<m>> \o SortedSeq(S \ {m})

\* variant: the share left as a fraction, without the * 100
MarketShareFraction(group_sum, total) ==
  LET whole == group_sum \div total
      rest == group_sum % total
  IN whole * 100 + RoundDiv(rest * 100, total)

\* (sum / total_sales * 100).round(2), in hundredths of a percent
MarketShare(group_sum, total) ==
  LET whole == (group_sum * 100) \div total
      rest == (group_sum * 100) % total
  IN whole * 100 + RoundDiv(rest * 100, total)

\* _create_product_summary / _create_region_summary: the groups in groupby
\* order, each with its rounded statistics
CreateSummary(rows, key, val) ==
  LET keys == SortedSeq({rows[i][key] : i \in DOMAIN rows})
      total == SumSeq([i \in DOMAIN rows |-> rows[i][val]])
      stat(k) ==
        LET v == GroupValues(rows, key, val, k)
            group_sum == Round2(SumSeq(v))
        IN [total_sales |-> group_sum,
            average_sales |-> RoundDiv(SumSeq(v), Len(v) * 10) * 10,
            transaction_count |-> Len(v),
            market_share_percent |-> MarketShare(group_sum, total)]
  IN [keys |-> keys,
      stats |-> [k \in {keys[i] : i \in DOMAIN keys} |-> stat(k)]]

\* variant: the first key of the dict, whatever its total
TopKeyFirst(summary) == summary.keys[1]

\* max(summary.keys(), key=total_sales): the first key with the largest total
TopKey(summary) ==
  LET best == CHOOSE i \in DOMAIN summary.keys :
                /\ \A j \in DOMAIN summary.keys :
                     summary.stats[summary.keys[j]].total_sales
                       <= summary.stats[summary.keys[i]].total_sales
                /\ \A j \in DOMAIN summary.keys :
                     j < i => summary.stats[summary.keys[j]].total_sales
                                < summary.stats[summary.keys[i]].total_sales
  IN summary.keys[best]

\* variant: the test written >= 50
IsConcentratedAtLeast(share) == share >= 5000

\* line 135: `if top_product_share > 50`
IsConcentrated(share) == share > 5000

\* _generate_key_insights
GenerateKeyInsights(product_summary, region_summary) ==
  LET top_product == TopKey(product_summary)
      top_region == TopKey(region_summary)
      share == product_summary.stats[top_product].market_share_percent
  IN << [kind |-> "top_product", name |-> top_product,
         amount |-> product_summary.stats[top_product].total_sales],
        [kind |-> "top_region", name |-> top_region,
         amount |-> region_summary.stats[top_region].total_sales],
        [kind |-> "product_count", name |-> 0,
         amount |-> Len(product_summary.keys)],
        [kind |-> "region_count", name |-> 0,
         amount |-> Len(region_summary.keys)] >>
     \o (IF IsConcentrated(share)
         THEN << [kind |-> "concentration", name |-> top_product,
                  amount |-> share] >>
         ELSE <<>>)

CsvErrorPrefix == "Error processing CSV data: "

\* line 64-65: every exception is wrapped
CsvError(detail, columns, sales_column) ==
  [kind |-> "raised", message |-> <<CsvErrorPrefix>> \o detail,
   available |-> columns, sales_column |-> sales_column]

\* process_csv_data on a table that was read
process_csv_data(table) ==
  LET cols == NormalizeColumns(table.header)
      sales_column == ResolveSalesColumn(cols)
      renamed == RenameColumns(cols, sales_column)
      missing == MissingColumns(renamed)
  IN IF sales_column = NoColumn
     THEN CsvError(<<"Could not find sales column. Available columns: ", cols>>,
                   cols, sales_column)
     ELSE IF missing # <<>>
     THEN CsvError(<<"Missing required columns: ", missing,
                     ". Available columns: ", renamed>>, renamed, sales_column)
     ELSE IF \E c \in {<<"product">>, <<"region">>} : ~InColumns(c, renamed)
     THEN CsvError(<<"KeyError">>, <<>>, sales_column)
     ELSE IF table.rows = <<>>
     THEN CsvError(<<"max() arg is an empty sequence">>, <<>>, sales_column)
     ELSE
       LET val == ColumnIndex(renamed, <<"sales">>)
           product_summary ==
             CreateSummary(table.rows, ColumnIndex(renamed, <<"product">>), val)
           region_summary ==
             CreateSummary(table.rows, ColumnIndex(renamed, <<"region">>), val)
       IN [kind |-> "SalesData",
           sales_column |-> sales_column,
           product_summary |-> product_summary,
           region_summary |-> region_summary,
           total_sales |-> SumSeq([i \in DOMAIN table.rows |-> table.rows[i][val]]),
           key_insights |-> GenerateKeyInsights(product_summary, region_summary)]

\* ------------------------------------------------------- the tables read
StandardHeader == << <<"product">>, <<"region">>, <<"sales">> >>

\* 0.004, 50.00 and 50.01
SalesValues == {4, 50000, 50010}

ProductNames == {1, 2, 3}

RegionNames == {1, 2}

RowTypes == {<<p, r, v>> : p \in ProductNames, r \in RegionNames, v \in SalesValues}

RowTables ==
  {[header |-> StandardHeader, rows |-> rows] :
     rows \in UNION {[1..n -> RowTypes] : n \in 1..MaxRows}}

\* one row per product, all with the same sales
UniformTable ==
  [header |-> StandardHeader,
   rows |-> [i \in 1..ManyProducts |-> <<i, 1, 50000>>]]

Headers ==
  { << <<"Product">>, <<"Region">>, <<"Sales">> >>,
    << <<"product">>, <<"region">>, <<"Revenue", SP, "Millions", SP, "USD">> >>,
    << <<"product">>, <<"region">>, <<"revenue">>, <<"sales">> >>,
    << <<"product">>, <<"region">>, <<"amount">>, <<"Total", SP, "Sales">> >>,
    << <<"product">>, <<"revenue">>, <<"region">>,
       <<"revenue", "_", "millions", "_", "usd">> >>,
    << <<"product">>, <<"region">>, <<"price">> >>,
    << <<"product">>, <<"Revenue">> >>,
    << <<"region">>, <<"sales">> >>,
    << <<"turnover">> >>,
    << <<"product">>, <<"region">>, <<"total", SP, "sales">>, <<"amount">>, <<"price">> >> }

\* two rows under a header; every column holds its own amounts
HeaderTable(h) ==
  [header |-> h,
   rows |-> [i \in 1..2 |-> [j \in DOMAIN h |-> 1000 * j + 10 * i]]]

HeaderTables == {HeaderTable(h) : h \in Headers}

\* the table of the end-to-end scenario: products MacBook, iPad, iPhone are
\* 1, 2, 3 and regions Asia, EU, NA are 1, 2, 3 (their ranks in string order).
\* Its amounts are written in thousands (1500000 thousandths stand for
\* 1,500,000): every amount of the scenario is a whole number, so the sums,
\* the rounding to 2 decimals and the shares are the same up to that factor,
\* and the integers stay below 2^31.
ScenarioTable ==
  [header |-> StandardHeader,
   rows |-> << <<3, 3, 1500000>>, <<1, 2, 800000>>, <<2, 1, 600000>>,
               <<3, 2, 1200000>>, <<1, 3, 900000>> >>]

Tables == RowTables \cup HeaderTables \cup {UniformTable, ScenarioTable}

\* process_csv_data, lines 15-65
ProcessCsvData ==
  /\ sales.pc = "read"
  /\ sales' = [sales EXCEPT !.pc = "done",
                            !.outcome = process_csv_data(sales.table)]
  /\ UNCHANGED <<pc, callVars, input, cur, consumed, parserVars, parse_outcome,
                 parsed_response, result, gen, app, search>>

\* process_csv_data alone, on every table of Tables
DataInit ==
  /\ pc = "off"
  /\ industry_research = None
  /\ research_summary = <<>>
  /\ response = [kind |-> "none"]
  /\ llm_calls = 0
  /\ input = <<>>
  /\ ParserLocalsInit
  /\ CallLocalsInit
  /\ gen = GenOff
  /\ app = AppOff
  /\ search = SearchOff
  /\ \E table \in Tables : sales = [pc |-> "read", table |-> table, outcome |-> None]

DataNext == ProcessCsvData

SpecData == DataInit /\ [][DataNext]_vars

\* ------------------------------------------- TavilySearchTool (search_tool)
MaxProductList == 4    \* longest products list handed to search_company_trends

\* what client.search can do with one query: raise (network, quota, rejected
\* key, malformed response) or answer with at most max_results results
ServiceOutcomes(key, query, max_results) ==
  IF key = "invalid"
  THEN {[kind |-> "raised", cause |-> "invalid API key"]}
  ELSE {[kind |-> "raised", cause |-> cause] :
          cause \in {"network", "quota", "malformed response"}}
       \cup {[kind |-> "results",
              results |-> [j \in 1..n |-> [title |-> query, url |-> j]]] :
               n \in 0..max_results}

\* variant: _perform_search without its handler, the failure reaches the
\* handler of search_company_trends
QueryFailedAborts(query, o, field, next_pc, k) ==
  search' = [search EXCEPT !.issued = Append(@, query),
                           !.returned = Append(@, o),
                           !.pc = "raised",
                           !.outcome =
                             [kind |-> "raised",
                              message |-> <<"Error performing industry research: ",
                                            o.cause>>]]

\* lines 85-87: the failure of a query is printed and [] is returned for it
QueryFailed(query, o, field, next_pc, k) ==
  search' = [search EXCEPT !.issued = Append(@, query),
                           !.returned = Append(@, o),
                           ![field] = @ \o <<>>,
                           !.pc = next_pc,
                           !.k = k]

\* lines 65-71: what is asked of client.search
Request(query, max_results) ==
  [kind |-> query.kind, subject |-> query.subject, max_results |-> max_results]

\* _perform_search(query, max_results) and the use of its result
PerformSearch(query, max_results, field, next_pc, k) ==
  \E o \in ServiceOutcomes(search.key, query, max_results) :
    IF o.kind = "raised"
    THEN QueryFailed(Request(query, max_results), o, field, next_pc, k)
    ELSE search' = [search EXCEPT !.issued = Append(@, Request(query, max_results)),
                                  !.returned = Append(@, o),
                                  ![field] = @ \o o.results,
                                  !.pc = next_pc,
                                  !.k = k]

SearchFrame ==
  UNCHANGED <<pc, callVars, input, cur, consumed, parserVars, parse_outcome,
              parsed_response, result, gen, app, sales>>

\* lines 19-23
SearchConstruct ==
  /\ search.pc = "new"
  /\ search' =
       IF search.key = "empty"
       THEN [search EXCEPT !.pc = "raised",
                           !.outcome = [kind |-> "raised",
                                        message |-> <<"Tavily API key is required">>]]
       ELSE [search EXCEPT !.pc = "company"]
  /\ SearchFrame

\* lines 31-32
SearchCompany ==
  /\ search.pc = "company"
  /\ PerformSearch([kind |-> "company", subject |-> 0], 3,
                   "company_results", "product", 0)
  /\ SearchFrame

\* lines 36-42: one query for each of products[:3]
SearchProduct ==
  /\ search.pc = "product"
  /\ search.k < Len(Take(search.products, 3))
  /\ PerformSearch([kind |-> "product",
                    subject |-> Take(search.products, 3)[search.k + 1]], 2,
                   "product_results", "product", search.k + 1)
  /\ SearchFrame

\* lines 45-46
SearchIndustry ==
  /\ search.pc = "product"
  /\ search.k = Len(Take(search.products, 3))
  /\ PerformSearch([kind |-> "industry", subject |-> 0], 3,
                   "industry_results", "competitive", search.k)
  /\ SearchFrame

\* lines 49-50
SearchCompetitive ==
  /\ search.pc = "competitive"
  /\ PerformSearch([kind |-> "competitive", subject |-> 0], 3,
                   "competitive_results", "return", search.k)
  /\ SearchFrame

\* lines 52-57
SearchReturn ==
  /\ search.pc = "return"
  /\ search' = [search EXCEPT
                  !.pc = "done",
                  !.outcome = IndustryResearch(search.company_results,
                                               search.product_results,
                                               search.industry_results,
                                               search.competitive_results)]
  /\ SearchFrame

\* TavilySearchTool(api_key).search_company_trends(company_name, products)
SearchInit ==
  /\ pc = "off"
  /\ industry_research = None
  /\ research_summary = <<>>
  /\ response = [kind |-> "none"]
  /\ llm_calls = 0
  /\ input = <<>>
  /\ ParserLocalsInit
  /\ CallLocalsInit
  /\ gen = GenOff
  /\ app = AppOff
  /\ sales = SalesOff
  /\ \E key \in {"empty", "invalid", "valid"}, n \in 0..MaxProductList :
       search = [SearchOff EXCEPT !.pc = "new", !.key = key,
                                  !.products = [i \in 1..n |-> i]]

SearchNext ==
  \/ SearchConstruct
  \/ SearchCompany
  \/ SearchProduct
  \/ SearchIndustry
  \/ SearchCompetitive
  \/ SearchReturn

SpecSearch == SearchInit /\ [][SearchNext]_vars

\* ------------------------------------------------- app.main, lines 100-186
\* the tables an upload can hold
AppTables == HeaderTables

\* everything of the generator and the parser, untouched by the steps of main
\* outside generate_executive_report
GeneratorFrame ==
  UNCHANGED <<callVars, input, cur, consumed, parserVars, parse_outcome,
              parsed_response, result, gen, search>>

\* an exception inside the try block of line 113 reaches the handler of 179
AppRaise(step) ==
  /\ app' = [app EXCEPT !.stage = "handler", !.failed_at = step]
  /\ pc' = "aborted"

\* lines 100-109: without the OpenAI key or the upload nothing is started
AppValidate ==
  /\ pc = "validate"
  /\ IF app.openai_key /\ app.uploaded
     THEN pc' = "save" /\ app' = app
     ELSE pc' = "rejected" /\ app' = [app EXCEPT !.stage = "ended"]
  /\ UNCHANGED sales
  /\ GeneratorFrame

\* lines 116-120: the upload is written to a file that outlives the `with`;
\* csv_path is bound after the write
AppSaveUpload ==
  /\ pc = "save"
  /\ \/ AppRaise("save")
     \/ /\ app' = [app EXCEPT !.tmp_file = "exists", !.stage = "handler",
                              !.failed_at = "save"]
        /\ pc' = "aborted"
     \/ /\ app' = [app EXCEPT !.tmp_file = "exists", !.csv_path = TRUE]
        /\ pc' = "components"
  /\ UNCHANGED sales
  /\ GeneratorFrame

\* lines 124-125
AppInitComponents ==
  /\ pc = "components"
  /\ \/ AppRaise("components")
     \/ pc' = "process" /\ app' = app
  /\ UNCHANGED sales
  /\ GeneratorFrame

\* line 130
AppProcessData ==
  /\ pc = "process"
  /\ \E table \in AppTables :
       LET outcome == process_csv_data(table)
       IN /\ sales' = [pc |-> "done", table |-> table, outcome |-> outcome]
          /\ IF outcome.kind = "raised"
             THEN AppRaise("process")
             ELSE pc' = "summary" /\ app' = app
  /\ GeneratorFrame

\* line 134
AppDisplaySummary ==
  /\ pc = "summary"
  /\ \/ AppRaise("summary")
     \/ pc' = "research" /\ app' = app
  /\ UNCHANGED sales
  /\ GeneratorFrame

\* lines 172-177: the report is displayed, then the file is removed
AppDisplay ==
  /\ pc = "returned"
  /\ app.stage = "running"
  /\ \/ app' = [app EXCEPT !.stage = "handler", !.failed_at = "display"]
     \/ app' = [app EXCEPT !.stage = "ended", !.tmp_file = "removed"]
  /\ UNCHANGED <<pc, sales>>
  /\ GeneratorFrame

\* lines 179-186: the file is removed if the name csv_path is bound
AppHandler ==
  /\ \/ app.stage = "handler"
     \/ app.stage = "running" /\ pc = "failed"
  /\ app' = [app EXCEPT
               !.stage = "ended",
               !.failed_at = IF app.stage = "running" THEN "generation" ELSE @,
               !.tmp_file = IF app.csv_path THEN "removed" ELSE @]
  /\ UNCHANGED <<pc, sales>>
  /\ GeneratorFrame

\* main was started with its inputs
AppStart ==
  \E openai_key \in BOOLEAN, uploaded \in BOOLEAN, tavily_key \in BOOLEAN :
    app = [caller |-> "app", openai_key |-> openai_key, uploaded |-> uploaded,
           tavily_key |-> tavily_key, tmp_file |-> "none", csv_path |-> FALSE,
           research |-> "none", stage |-> "running", failed_at |-> "none"]

\* the generator is called by app.main (after its research step) or directly
Init ==
  /\ \/ pc = "validate" /\ industry_research = None /\ AppStart
     \/ pc = "prompts" /\ industry_research \in {None} \cup Bundles /\ app = AppOff
  /\ research_summary = <<>>
  /\ response = [kind |-> "none"]
  /\ llm_calls = 0
  /\ input = <<>>
  /\ ParserLocalsInit
  /\ CallLocalsInit
  /\ gen = GenOff
  /\ search = SearchOff
  /\ sales = SalesOff

Next ==
  \/ AppValidate
  \/ AppSaveUpload
  \/ AppInitComponents
  \/ AppProcessData
  \/ AppDisplaySummary
  \/ AppResearch
  \/ AppEmptyBundle
  \/ BuildPrompts
  \/ LLMInvoke
  \/ ScanLine
  \/ Finish
  \/ Score
  \/ Return
  \/ AppDisplay
  \/ AppHandler

Spec == Init /\ [][Next]_vars

\* ================================================================== claims
\* the step scans one line of the response; Scanned is that line, trimmed
LineStep == pc = "parsing" /\ consumed' = consumed + 1

Scanned == Strip(cur')

\* the step is a flush boundary: a Category: line or a bracketed header in the
\* Recommendations state, or the end of the input
FlushBoundary ==
  \/ /\ LineStep
     /\ current_section = "recommendations"
     /\ StartsWith(Scanned, "Category:") \/ IsBracketHeader(Scanned)
  \/ /\ pc = "parsing"
     /\ consumed' = consumed
     /\ pc' # "parsing"

\* C1: whatever the lines of the response, the parser returns a report and
\* never raises.
C1_ParserNeverRaises == parse_outcome # "raised"

\* C2: a draft whose description, priority, timeline and expected impact are
\* non-empty but which has no category is appended to the recommendations
\* at the next flush boundary.
C2_NoCategoryAccepted ==
  [][(/\ FlushBoundary
      /\ IsComplete(current_recommendation)
      /\ "category" \notin current_recommendation.keys)
     => (/\ pc' # "failed"
         /\ Len(strategic_recommendations') = Len(strategic_recommendations) + 1
         /\ strategic_recommendations'[Len(strategic_recommendations')]["recommendation"]
              = current_recommendation.val["recommendation"])]_vars

\* C3: a conformant response with N well-formed entries parses to exactly the
\* N written items, in order, with the written field values.
C3_RoundTrip ==
  (gen.phase = "end" /\ gen.omitted = 0 /\ pc # "parsing")
    => /\ parse_outcome = "returned"
       /\ Len(parsed_response.strategic_recommendations) = gen.headers
       /\ parsed_response.strategic_recommendations = gen.expected

C3_Witness ==
  /\ parse_outcome = "returned"
  /\ gen.omitted = 0
  /\ gen.headers = 2
  /\ Len(parsed_response.strategic_recommendations) = 2
  /\ parsed_response.strategic_recommendations[1]["recommendation"]
       = <<"a", SP, "b", SP, "a">>
  /\ parsed_response.strategic_recommendations[2]["expected_impact"]
       = <<"i", ":", SP, "a">>

\* C4: once the response was parsed, a failure of the scoring block never
\* fails the call: the parsed report is returned with no score.
C4_ScorerFailureStillReturns ==
  /\ parse_outcome = "returned" => pc # "failed"
  /\ judge_outcome = "raised" => hallucination_score = None
  /\ (judge_outcome = "raised" /\ pc = "returned")
       => result = [kind |-> "returned", report |-> parsed_response,
                    score |-> None]

C4_Witness ==
  /\ pc = "returned"
  /\ judge_outcome = "raised"
  /\ result.kind = "returned"
  /\ result.report = parsed_response
  /\ Len(result.report.strategic_recommendations) = 2

\* C5: when the model call raises, the caller gets an error whose message
\* wraps the cause, no report and no score, and the model was called once.
C5_LLMFailureWrapsCause ==
  /\ llm_calls <= 1
  /\ response.kind = "raised"
       => /\ pc = "failed"
          /\ result.kind = "raised"
          /\ result.message = <<ErrorPrefix, response.cause>>
          /\ parsed_response = NoReport
          /\ hallucination_score = None
          /\ llm_calls = 1

C5_Witness ==
  /\ response.kind = "raised"
  /\ response.cause = "authentication"
  /\ pc = "failed"
  /\ result.kind = "raised"

\* C6: an empty response content makes the call fail instead of returning a
\* report.
C6_EmptyResponseFails ==
  (response.kind = "content" /\ response.content = EmptyContent)
    => result.kind # "returned"

\* C7: when exactly one of the H entries lacks its Expected Impact line, the
\* parser returns H - 1 recommendations and does not raise.
C7_MissingImpactDropsOne ==
  /\ gen.omitted # 0 => parse_outcome # "raised"
  /\ (gen.phase = "end" /\ gen.omitted # 0 /\ pc # "parsing")
       => /\ parse_outcome = "returned"
          /\ Len(parsed_response.strategic_recommendations) = gen.headers - 1
          /\ parsed_response.strategic_recommendations = gen.expected

C7_Witness ==
  /\ parse_outcome = "returned"
  /\ gen.omitted = 1
  /\ gen.headers = 2
  /\ Len(parsed_response.strategic_recommendations) = 1

\* C8: in the Recommendations state a bracketed header appends the draft if
\* it is complete, at that very line, and always starts an empty draft.
C8_BracketHeaderPureFlush ==
  [][(/\ LineStep
      /\ current_section = "recommendations"
      /\ IsBracketHeader(Scanned))
     => (/\ strategic_recommendations' =
              IF IsComplete(current_recommendation)
              THEN Append(strategic_recommendations,
                          Item(current_recommendation))
              ELSE strategic_recommendations
         /\ current_recommendation' = EmptyDraft)]_vars

\* the outputs and the draft, without the current section
Contents9 ==
  <<current_recommendation, executive_summary, key_findings,
    strategic_recommendations, risk_assessment, next_steps>>

\* a line other than a header is handed to the current section: in the
\* Summary and Risk states it is added to the paragraph
DispatchedAsContent ==
  /\ current_section' = current_section
  /\ (Scanned # <<>> /\ current_section = "summary")
       => executive_summary' = executive_summary \o Scanned \o <<SP>>
  /\ (Scanned # <<>> /\ current_section = "risk")
       => risk_assessment' = risk_assessment \o Scanned \o <<SP>>

\* C9 as stated: the section switches exactly on the lines that are equal,
\* once trimmed, to one of the five headers; every other line is content.
C9_ExactHeaderOnly ==
  [][LineStep =>
       IF \E i \in 1..5 : Scanned = <<SectionHeaders[i]>>
       THEN /\ \E i \in 1..5 : /\ Scanned = <<SectionHeaders[i]>>
                               /\ current_section' = SectionNames[i]
            /\ UNCHANGED Contents9
       ELSE DispatchedAsContent]_vars

\* C9 amended: the section switches exactly on the lines that begin, once
\* trimmed, with one of the five headers (case-sensitive); such a line is
\* discarded whole, text after the header included; every other line is
\* content of the current section.
C9_PrefixHeader ==
  [][LineStep =>
       IF \E i \in 1..5 : StartsWith(Scanned, SectionHeaders[i])
       THEN /\ \E i \in 1..5 : /\ StartsWith(Scanned, SectionHeaders[i])
                               /\ current_section' = SectionNames[i]
            /\ UNCHANGED Contents9
            /\ pc' = "parsing"
       ELSE DispatchedAsContent]_vars

C9_Witness ==
  /\ pc = "parsing"
  /\ cur = <<"EXECUTIVE SUMMARY:", SP, "a">>
  /\ current_section = "summary"
  /\ executive_summary = <<>>
  /\ consumed >= 2

\* C10: a research bundle whose four lists are empty is rendered as the
\* "No industry research data available" placeholder.
C10_EmptyBundlePlaceholder ==
  (pc \notin {"research", "bundle", "prompts"} /\ industry_research = EmptyBundle)
    => \E i \in DOMAIN research_summary : research_summary[i] = Placeholder

\* ---------------------------------------------------- claims on the sales data
\* process_csv_data returned a SalesData
SalesDone == sales.pc = "done" /\ sales.outcome.kind = "SalesData"

SalesRaised == sales.pc = "done" /\ sales.outcome.kind = "raised"

\* the normalized column names of the table read
TableColumns == NormalizeColumns(sales.table.header)

\* the candidates of the priority list that are columns of the table
PresentCandidates ==
  {k \in DOMAIN possible_sales_cols : InColumns(possible_sales_cols[k], TableColumns)}

\* the raw values of the column whose normalized name is `name`
RawColumn(name) ==
  LET j == CHOOSE j \in DOMAIN TableColumns : TableColumns[j] = name
  IN [i \in DOMAIN sales.table.rows |-> sales.table.rows[i][j]]

\* the unrounded sales of product p, read from the resolved sales column
ExactProductSales(p) ==
  LET pj == CHOOSE j \in DOMAIN TableColumns : TableColumns[j] = <<"product">>
      own == SelectSeq([i \in DOMAIN sales.table.rows |->
                          <<sales.table.rows[i][pj],
                            RawColumn(sales.outcome.sales_column)[i]>>],
                       LAMBDA pair : pair[1] = p)
  IN SumSeq([i \in DOMAIN own |-> own[i][2]])

Abs(x) == IF x < 0 THEN 0 - x ELSE x

SumOver(summary, field) ==
  SumSeq([i \in DOMAIN summary.keys |-> summary.stats[summary.keys[i]][field]])

\* every sales value of the table has at most two decimals
WholeCents ==
  \A i \in DOMAIN sales.table.rows :
    RawColumn(sales.outcome.sales_column)[i] % 10 = 0

InsightKinds(ins) == [i \in DOMAIN ins |-> ins[i].kind]

\* C15 as stated: the four insights come in the fixed order and the fifth,
\* the concentration risk, is present exactly when the top product's share of
\* the total sales (the exact quotient) exceeds 50%
C15_ExactShare ==
  SalesDone =>
    LET ins == sales.outcome.key_insights
        top == ins[1].name
    IN /\ Len(ins) >= 4
       /\ SubSeq(InsightKinds(ins), 1, 4) =
            <<"top_product", "top_region", "product_count", "region_count">>
       /\ Len(ins) = 5 <=> 2 * ExactProductSales(top) > sales.outcome.total_sales

\* C15 amended: the insights are top product, top region, product count,
\* region count in that order, and a fifth concentration item follows exactly
\* when market_share_percent of the top product (the share of its rounded
\* total, rounded to two decimals) is above 50
C15_RoundedShare ==
  SalesDone =>
    LET ins == sales.outcome.key_insights
        ps == sales.outcome.product_summary
        rs == sales.outcome.region_summary
        top == ins[1].name
    IN /\ Len(ins) \in {4, 5}
       /\ SubSeq(InsightKinds(ins), 1, 4) =
            <<"top_product", "top_region", "product_count", "region_count">>
       /\ \A i \in DOMAIN ps.keys :
            ps.stats[ps.keys[i]].total_sales <= ps.stats[top].total_sales
       /\ ins[1].amount = ps.stats[top].total_sales
       /\ \A i \in DOMAIN rs.keys :
            rs.stats[rs.keys[i]].total_sales <= ins[2].amount
       /\ ins[3].amount = Cardinality({ps.keys[i] : i \in DOMAIN ps.keys})
       /\ ins[4].amount = Cardinality({rs.keys[i] : i \in DOMAIN rs.keys})
       /\ Len(ins) = 5 <=> ps.stats[top].market_share_percent > 5000
       /\ Len(ins) = 5 => ins[5].kind = "concentration" /\ ins[5].name = top

\* a table whose top product holds more than half: five insights
C15_Witness ==
  /\ SalesDone
  /\ Len(sales.outcome.key_insights) = 5
  /\ Len(sales.outcome.product_summary.keys) = 2

\* C16 as stated: the sum of the per-product totals, the grand total and the
\* sum of the per-region totals are pairwise within 0.01
C16_WithinOneCent ==
  SalesDone =>
    LET p == SumOver(sales.outcome.product_summary, "total_sales")
        r == SumOver(sales.outcome.region_summary, "total_sales")
        t == sales.outcome.total_sales
    IN Abs(p - t) <= 10 /\ Abs(r - t) <= 10 /\ Abs(p - r) <= 10

\* C16 amended: each group total is off by at most half a cent, so the sum of
\* the per-product (per-region) totals is within 0.005 times the number of
\* products (regions) of the grand total, and equal to it when every value has
\* at most two decimals
C16_HalfCentPerGroup ==
  SalesDone =>
    LET ps == sales.outcome.product_summary
        rs == sales.outcome.region_summary
        p == SumOver(ps, "total_sales")
        r == SumOver(rs, "total_sales")
        t == sales.outcome.total_sales
    IN /\ 2 * Abs(p - t) <= 10 * Len(ps.keys)
       /\ 2 * Abs(r - t) <= 10 * Len(rs.keys)
       /\ 2 * Abs(p - r) <= 10 * (Len(ps.keys) + Len(rs.keys))
       /\ WholeCents => p = t /\ r = t

\* a table with a value of three decimals, whose product totals lose it
C16_Witness ==
  /\ SalesDone
  /\ ~WholeCents
  /\ SumOver(sales.outcome.product_summary, "total_sales") # sales.outcome.total_sales

\* C17 as stated: the market shares of the products sum to 100 within 0.1
C17_WithinTenth ==
  SalesDone =>
    Abs(SumOver(sales.outcome.product_summary, "market_share_percent") - 10000) <= 10

\* C17 amended: when every sales value has at most two decimals, the market
\* shares of the products sum to 100 within 0.005 times the number of products
C17_HalfHundredthPerProduct ==
  (SalesDone /\ WholeCents) =>
    2 * Abs(SumOver(sales.outcome.product_summary, "market_share_percent") - 10000)
      <= Len(sales.outcome.product_summary.keys)

\* three products with unequal sales, the shares were rounded
C17_Witness ==
  /\ SalesDone
  /\ WholeCents
  /\ Len(sales.outcome.product_summary.keys) = 3
  /\ SumOver(sales.outcome.product_summary, "market_share_percent") # 10000

\* C18: the sales column is the earliest candidate of the priority list that
\* is a normalized column name, and the aggregates are computed from it
C18_FirstCandidateWins ==
  (sales.pc = "done" /\ PresentCandidates # {}) =>
    LET first == CHOOSE k \in PresentCandidates : \A j \in PresentCandidates : k <= j
    IN /\ sales.outcome.sales_column = possible_sales_cols[first]
       /\ SalesDone =>
            /\ sales.outcome.total_sales = SumSeq(RawColumn(possible_sales_cols[first]))
            /\ WholeCents =>
                 SumOver(sales.outcome.product_summary, "total_sales")
                   = SumSeq(RawColumn(possible_sales_cols[first]))

\* a header with the candidates revenue and revenue_millions_usd
C18_Witness ==
  /\ SalesDone
  /\ Cardinality(PresentCandidates) = 2
  /\ sales.outcome.sales_column = <<"revenue", "_", "millions", "_", "usd">>
  /\ sales.table.header # TableColumns \/ InColumns(<<"revenue">>, TableColumns)

\* C19: without a candidate sales column, or without the product or the region
\* column, the call raises, returns no summary, and its message lists the
\* columns of the table
C19_SchemaErrorListsColumns ==
  (/\ sales.pc = "done"
   /\ \/ PresentCandidates = {}
      \/ ~InColumns(<<"product">>, TableColumns)
      \/ ~InColumns(<<"region">>, TableColumns)) =>
    /\ sales.outcome.kind = "raised"
    /\ Head(sales.outcome.message) = CsvErrorPrefix
    /\ sales.outcome.available =
         [i \in DOMAIN TableColumns |->
            IF PresentCandidates # {} /\ TableColumns[i] = sales.outcome.sales_column
            THEN <<"sales">> ELSE TableColumns[i]]
    /\ sales.outcome.message[Len(sales.outcome.message)] = sales.outcome.available

\* a table with a sales column and a product column but no region column
C19_Witness ==
  /\ SalesRaised
  /\ PresentCandidates # {}
  /\ InColumns(<<"product">>, TableColumns)
  /\ ~InColumns(<<"region">>, TableColumns)
  /\ sales.outcome.available # <<>>

\* ------------------------------------------------------ claims on the research
\* what is kept of the answer to one query
Kept(o) == IF o.kind = "raised" THEN <<>> ELSE o.results

RECURSIVE KeptAll(_)
KeptAll(os) == IF os = <<>> THEN <<>> ELSE Kept(Head(os)) \o KeptAll(Tail(os))

\* the number of product queries of the call
ProductQueries == IF Len(search.products) < 3 THEN Len(search.products) ELSE 3

C12_InvalidKeyRaises ==
  (search.key = "invalid" /\ search.pc \in {"done", "raised"}) =>
    search.pc = "raised"

\* ----------------------------------------------------------- claims on main
\* the research step was skipped or failed
ResearchUnavailable == app.research \in {"no_key", "tool_raised", "search_raised"}

\* C13: a run of main that reached the research step never aborts because of
\* it: without the Tavily key, or when the tool or the research raises, the
\* generator is handed the bundle of four empty lists, and every such run has
\* invoked the generation by the time it ends
C13_ResearchNeverBlocks ==
  app.caller = "app" =>
    /\ app.failed_at # "research"
    /\ ResearchUnavailable =>
         /\ pc # "aborted"
         /\ pc # "bundle" => industry_research = EmptyBundle
    /\ (app.research # "none" /\ app.stage = "ended") => llm_calls = 1

\* the research raised and the report was generated from the empty bundle
C13_Witness ==
  /\ app.research = "search_raised"
  /\ pc = "returned"
  /\ industry_research = EmptyBundle
  /\ llm_calls = 1
  /\ app.stage = "ended"

\* C14: when a run of main that created the temporary file has ended, the
\* file has been removed
C14_TempFileRemoved ==
  (app.stage = "ended" /\ app.tmp_file # "none") => app.tmp_file = "removed"

\* ----------------------------------------------- claims on description lines
\* a line of the Recommendations state that is description text
DescriptionLine(line) ==
  /\ line # <<>>
  /\ SectionOf(line) = ""
  /\ ~HasFieldPrefix(line)
  /\ ~IsBracketHeader(line)

\* C20: in the Recommendations state a description line starts the draft's
\* description when there is none and is otherwise appended to it after
\* exactly one space, so the description is the lines of the entry in reading
\* order with one space between them; the other fields are left as they were
C20_DescriptionSpaceJoined ==
  [][(/\ LineStep
      /\ current_section = "recommendations"
      /\ DescriptionLine(Scanned))
     => (/\ current_recommendation'.keys =
              current_recommendation.keys \cup {"recommendation"}
         /\ current_recommendation'.val["recommendation"] =
              IF "recommendation" \in current_recommendation.keys
              THEN current_recommendation.val["recommendation"]
                     \o <<SP>> \o Scanned
              ELSE Scanned
         /\ \A f \in current_recommendation.keys \ {"recommendation"} :
              current_recommendation'.val[f] = current_recommendation.val[f]
         /\ strategic_recommendations' = strategic_recommendations)]_vars

\* the second description line of an entry was scanned: "a" then " b a"
C20_Witness ==
  /\ pc = "parsing"
  /\ current_section = "recommendations"
  /\ Strip(cur) = <<"b", SP, "a">>
  /\ "recommendation" \in current_recommendation.keys
  /\ current_recommendation.val["recommendation"] = <<"a", SP, "b", SP, "a">>

\* ------------------------------------------------- claims, end-to-end scenario
\* C21: for the scenario table the total is 5,000,000, iPhone (product 3) has
\* total 2,700,000 and market share 54%, there are 3 products and 3 regions,
\* and the insights are five, the fifth being the concentration risk of iPhone
\* (amounts in thousands, see ScenarioTable)
C21_Scenario ==
  (sales.pc = "done" /\ sales.table = ScenarioTable) =>
    /\ sales.outcome.kind = "SalesData"
    /\ sales.outcome.total_sales = 5000000
    /\ sales.outcome.product_summary.keys = <<1, 2, 3>>
    /\ sales.outcome.region_summary.keys = <<1, 2, 3>>
    /\ sales.outcome.product_summary.stats[3].total_sales = 2700000
    /\ sales.outcome.product_summary.stats[3].market_share_percent = 5400
    /\ Len(sales.outcome.key_insights) = 5
    /\ sales.outcome.key_insights[1].name = 3
    /\ sales.outcome.key_insights[3].amount = 3
    /\ sales.outcome.key_insights[4].amount = 3
    /\ sales.outcome.key_insights[5] =
         [kind |-> "concentration", name |-> 3, amount |-> 5400]

\* the scenario table was processed
C21_Witness ==
  /\ SalesDone
  /\ sales.table = ScenarioTable
  /\ Len(sales.table.rows) = 5
  /\ sales.outcome.key_insights[5].kind = "concentration"

\* ------------------------------------------------- claims on the query plan
\* the queries of one call with p products, as (kind, subject, max_results)
QueryPlan(products) ==
  <<[kind |-> "company", subject |-> 0, max_results |-> 3]>>
    \o [i \in 1..(IF Len(products) < 3 THEN Len(products) ELSE 3) |->
          [kind |-> "product", subject |-> products[i], max_results |-> 2]]
    \o <<[kind |-> "industry", subject |-> 0, max_results |-> 3],
         [kind |-> "competitive", subject |-> 0, max_results |-> 3]>>

\* C22: a call issues the queries of the plan, in the plan's order and each
\* once: company (max 3), one per product of the first min(3, p) in list order
\* (max 2 each), industry (max 3), competitive (max 3), 3 + min(3, p) in all;
\* the product results are in product order
C22_QueryPlan ==
  (search.pc # "off" /\ search.key # "empty") =>
    /\ Len(search.issued) <= Len(QueryPlan(search.products))
    /\ search.issued = SubSeq(QueryPlan(search.products), 1, Len(search.issued))
    /\ \A i, j \in DOMAIN search.issued : search.issued[i] = search.issued[j] => i = j
    /\ search.pc \in {"return", "done"} =>
         /\ Len(search.issued) = 3 + ProductQueries
         /\ search.issued = QueryPlan(search.products)
    /\ \A i, j \in DOMAIN search.product_results :
         i < j => search.product_results[i].title.subject
                    <= search.product_results[j].title.subject

\* four products: six queries, the three product queries answered in full
C22_Witness ==
  /\ search.pc = "done"
  /\ Len(search.products) = 4
  /\ Len(search.issued) = 6
  /\ Len(search.outcome.product_trends) = 6
  /\ search.outcome.product_trends[5].title.subject = 3

\* ------------------------------------------- claims on the flush boundaries
\* C23: in the Recommendations state a Category: line appends a complete
\* draft and puts the category on a fresh draft; with an incomplete draft it
\* appends nothing and puts the category on the draft as it is
C23_CategoryFlushes ==
  [][(/\ LineStep
      /\ current_section = "recommendations"
      /\ SectionOf(Scanned) = ""
      /\ StartsWith(Scanned, "Category:"))
     => IF IsComplete(current_recommendation)
        THEN /\ strategic_recommendations' =
                  Append(strategic_recommendations, Item(current_recommendation))
             /\ current_recommendation' =
                  Put(EmptyDraft, "category", AfterColon(Scanned))
        ELSE /\ strategic_recommendations' = strategic_recommendations
             /\ current_recommendation' =
                  Put(current_recommendation, "category", AfterColon(Scanned))]_vars

NonBulletOutputs ==
  <<executive_summary, strategic_recommendations, risk_assessment,
    current_recommendation>>

\* C25: in the Findings (Steps) state a line that begins with the bullet is
\* appended to key_findings (next_steps) without the marker and trimmed, and
\* nothing else changes; any other line that is not a header changes nothing
C25_OnlyBulletsCaptured ==
  [][(/\ LineStep
      /\ current_section \in {"findings", "steps"}
      /\ SectionOf(Scanned) = "")
     => /\ UNCHANGED NonBulletOutputs
        /\ current_section' = current_section
        /\ pc' = "parsing"
        /\ IF Scanned # <<>> /\ Head(Scanned) = BULLET
           THEN IF current_section = "findings"
                THEN /\ key_findings' =
                          Append(key_findings, Strip(Tail(Scanned)))
                     /\ next_steps' = next_steps
                ELSE /\ next_steps' = Append(next_steps, Strip(Tail(Scanned)))
                     /\ key_findings' = key_findings
           ELSE UNCHANGED <<key_findings, next_steps>>]_vars

\* a bullet of each list was captured, and a plain line in the Steps state
\* was dropped
C25_Witness ==
  /\ pc = "parsing"
  /\ current_section = "steps"
  /\ key_findings = << <<"b">> >>
  /\ next_steps = << <<"b">> >>
  /\ cur = <<"a">>
  /\ consumed = 5

\* ------------------------------------- claims on generate_executive_report
\* C26: within one call the prompts are built before the LLM is invoked, the
\* LLM is invoked once, the response is parsed after that, and the scoring
\* block is entered at most once, only after the parser has returned; it is
\* never entered when the LLM call or the parser raised
C26_StepOrder ==
  /\ [](llm_calls <= 1)
  /\ [](pc = "llm" =>
          research_summary = create_industry_research_prompt(industry_research))
  /\ [](response.kind # "none" => llm_calls = 1)
  /\ [](parse_outcome # "none" => response.kind \in {"content", "streamed"})
  /\ [](judge_outcome # "none" => parse_outcome = "returned" /\ llm_calls = 1)
  /\ [](pc = "failed" => judge_outcome = "none" /\ hallucination_score = None)
  /\ [][llm_calls' # llm_calls =>
          pc = "llm" /\ llm_calls = 0 /\ llm_calls' = 1]_vars
  /\ [][parse_outcome' # parse_outcome =>
          pc = "parsing" /\ parse_outcome = "none" /\ judge_outcome = "none"]_vars
  /\ [][judge_outcome' # judge_outcome =>
          pc = "scoring" /\ judge_outcome = "none"]_vars

\* a call that went through all four steps
C26_Witness ==
  /\ pc = "returned"
  /\ llm_calls = 1
  /\ parse_outcome = "returned"
  /\ judge_outcome = "ok"
  /\ result.kind = "returned"
  /\ result.score # None

\* ------------------------------------------ claims on the parser's output
\* C27: every item of strategic_recommendations has a non-blank description,
\* priority, timeline and expected impact, and was built from a draft that
\* had a category; an incomplete draft never enters the list
C27_ItemsComplete ==
  /\ [](\A i \in DOMAIN strategic_recommendations :
          \A f \in RequiredFields :
            Strip(strategic_recommendations[i][f]) # <<>>)
  /\ [](parse_outcome = "returned" =>
          parsed_response.strategic_recommendations = strategic_recommendations)
  /\ [][strategic_recommendations' # strategic_recommendations =>
          /\ "category" \in current_recommendation.keys
          /\ IsComplete(current_recommendation)
          /\ strategic_recommendations' =
               Append(strategic_recommendations, current_recommendation.val)]_vars

\* an entry of five fields was returned
C27_Witness ==
  /\ parse_outcome = "returned"
  /\ consumed = MaxLines
  /\ Len(parsed_response.strategic_recommendations) = 1
  /\ parsed_response.strategic_recommendations[1]["category"] = <<"c">>
  /\ parsed_response.strategic_recommendations[1]["expected_impact"] = <<"i">>

\* a field line other than Category:, with the field it sets
FieldOf(line) ==
  IF StartsWith(line, "Priority:") THEN "priority"
  ELSE IF StartsWith(line, "Timeline:") THEN "timeline"
  ELSE IF StartsWith(line, "Expected Impact:") THEN "expected_impact"
  ELSE ""

\* C28: a section header changes neither the draft nor the recommendations;
\* outside the Recommendations state no line changes them, so a pending draft
\* is only emitted by the end-of-input flush; and in the Recommendations
\* state, re-entered or not, a field or description line modifies the draft
\* that is pending, keeping its other fields
C28_HeaderKeepsDraft ==
  /\ [][(LineStep /\ (SectionOf(Scanned) # "" \/ current_section # "recommendations"))
          => /\ current_recommendation' = current_recommendation
             /\ strategic_recommendations' = strategic_recommendations
             /\ pc' = "parsing"]_vars
  /\ [][(LineStep /\ SectionOf(Scanned) # "")
          => /\ current_section' = SectionOf(Scanned)
             /\ UNCHANGED <<executive_summary, key_findings, risk_assessment,
                            next_steps>>]_vars
  /\ [][(/\ LineStep
         /\ current_section = "recommendations"
         /\ SectionOf(Scanned) = ""
         /\ FieldOf(Scanned) # "" \/ DescriptionLine(Scanned))
          => /\ current_recommendation'.keys =
                  current_recommendation.keys
                    \cup {IF FieldOf(Scanned) # "" THEN FieldOf(Scanned)
                          ELSE "recommendation"}
             /\ \A f \in Fields :
                  (f # FieldOf(Scanned) /\ (f = "recommendation" => FieldOf(Scanned) # ""))
                    => current_recommendation'.val[f] = current_recommendation.val[f]
             /\ FieldOf(Scanned) # "" =>
                  current_recommendation'.val[FieldOf(Scanned)] = AfterColon(Scanned)]_vars

\* the draft begun in the Recommendations state survived the Risk state and
\* got its priority after the section was entered again
C28_Witness ==
  /\ pc = "parsing"
  /\ consumed = MaxLines
  /\ current_section = "recommendations"
  /\ risk_assessment = <<"a", SP>>
  /\ current_recommendation.keys = {"recommendation", "priority"}
  /\ current_recommendation.val["recommendation"] = <<"a">>
  /\ cur = <<"Priority:", SP, "p">>

\* ------------------------------------- claims on entries without headers
\* C29: the Expected Impact: line appends nothing and keeps the draft; when
\* entries follow each other without bracketed headers, the description of
\* the second entry is joined to the first draft, which the second Category:
\* line flushes, and each later draft takes the description of the entry
\* after it; the last draft is left without description and is dropped.  Of
\* n >= 2 written entries n - 1 recommendations are returned, the first with
\* the two descriptions merged.
C29_ImpactDoesNotClose ==
  /\ [](parse_outcome # "raised")
  /\ []((gen.phase = "end" /\ pc # "parsing") =>
          LET n == gen.headers
              recs == parsed_response.strategic_recommendations
          IN /\ parse_outcome = "returned"
             /\ n = 1 => recs = gen.expected
             /\ n >= 2 =>
                  /\ Len(recs) = n - 1
                  /\ recs[1] =
                       [gen.expected[1] EXCEPT !["recommendation"] =
                          gen.expected[1]["recommendation"] \o <<SP>>
                            \o gen.expected[2]["recommendation"]]
                  /\ \A k \in 2..(n - 1) :
                       recs[k] =
                         [gen.expected[k] EXCEPT !["recommendation"] =
                            gen.expected[k + 1]["recommendation"]]
                  /\ "recommendation" \notin current_recommendation.keys
                  /\ current_recommendation.val["category"] =
                       gen.expected[n]["category"])
  /\ [][(LineStep /\ current_section = "recommendations"
           /\ StartsWith(Scanned, "Expected Impact:"))
          => /\ strategic_recommendations' = strategic_recommendations
             /\ current_recommendation' =
                  Put(current_recommendation, "expected_impact",
                      AfterColon(Scanned))]_vars

\* two entries were written and one recommendation came back, its
\* description made of both
C29_Witness ==
  /\ parse_outcome = "returned"
  /\ gen.phase = "end"
  /\ gen.headers = 2
  /\ Len(parsed_response.strategic_recommendations) = 1
  /\ parsed_response.strategic_recommendations[1]["recommendation"]
       = <<"a", SP, "b", SP, "a">>
  /\ gen.expected[1]["recommendation"] = <<"a">>
  /\ gen.expected[2]["recommendation"] = <<"b", SP, "a">>

\* ------------------------------------------- claims on the initial state
\* the report with nothing in it
EmptyReport ==
  [executive_summary |-> <<>>, key_findings |-> <<>>,
   strategic_recommendations |-> <<>>, risk_assessment |-> <<>>,
   next_steps |-> <<>>]

\* C30: the parser starts in the None state with nothing collected; in that
\* state a line that is not a header changes neither the outputs nor the
\* draft nor the state, and an input that ends in the None state returns the
\* empty report
C30_NoneStateDropsLines ==
  /\ []((pc = "parsing" /\ consumed = 0) =>
          /\ current_section = "none"
          /\ current_recommendation = EmptyDraft
          /\ Report(strategic_recommendations) = EmptyReport)
  /\ [][(LineStep /\ current_section = "none" /\ SectionOf(Scanned) = "")
          => /\ UNCHANGED parserVars
             /\ pc' = "parsing"]_vars
  /\ [](current_section = "none" =>
          /\ current_recommendation = EmptyDraft
          /\ Report(strategic_recommendations) = EmptyReport
          /\ parse_outcome # "raised"
          /\ parse_outcome = "returned" => parsed_response = EmptyReport)

\* lines of every kind but no header: the empty report was returned
C30_Witness ==
  /\ parse_outcome = "returned"
  /\ current_section = "none"
  /\ consumed = MaxLines
  /\ cur = <<"Expected Impact:", SP, "i">>
  /\ parsed_response = EmptyReport

====
